---------------------------- MODULE Spec2Model ----------------------------
(***************************************************************************)
(* A model of text-trimmer: trimText (options form and the earlier         *)
(* positional form), escapeRegExp and highlightText.                       *)
(*                                                                         *)
(* A JavaScript string is a sequence of one-character strings.  A          *)
(* JavaScript value is a record [kind, num, str]; an array carries its     *)
(* elements in a fourth field, items.  A call either returns a value or    *)
(* throws a TypeError with a message.                                      *)
(***************************************************************************)
EXTENDS Integers, Sequences, FiniteSets, TLC

VARIABLES
    pc,     \* "call": the arguments are chosen, "done": the call has ended
    args,   \* the arguments of the call
    ret     \* what the call produced

vars == <<pc, args, ret>>

---------------------------------------------------------------------------
(* Bounds of the model *)

MaxTextLen == 4
MaxLimit == 4
MaxWordLimit == 2
MaxEllipsisLen == 2

---------------------------------------------------------------------------
(* JavaScript values *)

Undefined == [kind |-> "undefined", num |-> 0, str |-> <<>>]
Null == [kind |-> "null", num |-> 0, str |-> <<>>]
NaN == [kind |-> "nan", num |-> 0, str |-> <<>>]
Num(n) == [kind |-> "number", num |-> n, str |-> <<>>]
Str(s) == [kind |-> "string", num |-> 0, str |-> s]
Bool(b) == [kind |-> "boolean", num |-> IF b THEN 1 ELSE 0, str |-> <<>>]
Arr(xs) == [kind |-> "array", num |-> 0, str |-> <<>>, items |-> xs]

\* typeof v
TypeOf(v) ==
    CASE v.kind = "undefined" -> "undefined"
      [] v.kind = "null" -> "object"
      [] v.kind = "array" -> "object"
      [] v.kind = "boolean" -> "boolean"
      [] v.kind = "number" -> "number"
      [] v.kind = "nan" -> "number"
      [] v.kind = "string" -> "string"

\* ToBoolean(v), as taken by if (v) and !v
Truthy(v) ==
    CASE v.kind = "undefined" -> FALSE
      [] v.kind = "null" -> FALSE
      [] v.kind = "nan" -> FALSE
      [] v.kind = "array" -> TRUE
      [] v.kind = "boolean" -> v.num = 1
      [] v.kind = "number" -> v.num # 0
      [] v.kind = "string" -> v.str # <<>>

\* v <= 0 for a value whose typeof is "number": false for NaN
LeqZero(v) == v.kind = "number" /\ v.num <= 0

\* n <= v for an integer n: false when ToNumber(v) is NaN
LeqValue(n, v) == v.kind = "number" /\ n <= v.num

\* a destructuring default: taken only when the property is undefined
Default(v, d) == IF v.kind = "undefined" THEN d ELSE v

Return(s) == [kind |-> "return", val |-> s, err |-> ""]
Throw(msg) == [kind |-> "throw", val |-> <<>>, err |-> msg]
NoRet == [kind |-> "none", val |-> <<>>, err |-> ""]

---------------------------------------------------------------------------
(* String primitives *)

SeqsUpTo(A, n) == UNION {[1..k -> A] : k \in 0..n}

Min(S) == CHOOSE x \in S : \A y \in S : x <= y
Max(S) == CHOOSE x \in S : \A y \in S : x >= y

\* the characters \s matches
IsSpace(c) == c \in {" ", "\t", "\n", "\r", "\f"}

\* s.slice(0, end) for an integer end
Slice(s, end) ==
    LET to == IF end < 0
              THEN (IF Len(s) + end > 0 THEN Len(s) + end ELSE 0)
              ELSE (IF end < Len(s) THEN end ELSE Len(s))
    IN SubSeq(s, 1, to)

\* s.lastIndexOf(c): 0-based, -1 when c does not occur
LastIndexOf(s, c) ==
    LET hits == {i \in 1..Len(s) : s[i] = c}
    IN IF hits = {} THEN -1 ELSE Max(hits) - 1

\* The 1-based index of the ">" that ends a match of /<[^>]+>/ starting at
\* index i of s, or 0 when there is no match at i.
TagEnd(s, i) ==
    IF s[i] # "<" THEN 0
    ELSE LET closers == {k \in (i + 1)..Len(s) : s[k] = ">"}
         IN IF closers = {} THEN 0
            ELSE IF Min(closers) >= i + 2 THEN Min(closers) ELSE 0

RECURSIVE StripFrom(_, _)
StripFrom(s, i) ==
    IF i > Len(s) THEN <<>>
    ELSE IF TagEnd(s, i) > 0 THEN StripFrom(s, TagEnd(s, i) + 1)
    ELSE <<s[i]>> \o StripFrom(s, i + 1)

\* s.replace(/<[^>]+>/g, '')
StripTags(s) == StripFrom(s, 1)

\* The 0-based index at which the run of whitespace starting at q ends.
RunEnd(s, q) ==
    LET rest == {k \in q..(Len(s) - 1) : ~IsSpace(s[k + 1])}
    IN IF rest = {} THEN Len(s) ELSE Min(rest)

\* The split loop: p is the start of the piece being collected and q the
\* position tried next, both 0-based.
RECURSIVE SplitFrom(_, _, _)
SplitFrom(s, p, q) ==
    IF q >= Len(s) THEN <<SubSeq(s, p + 1, Len(s))>>
    ELSE IF ~IsSpace(s[q + 1]) THEN SplitFrom(s, p, q + 1)
    ELSE <<SubSeq(s, p + 1, q)>> \o SplitFrom(s, RunEnd(s, q), RunEnd(s, q))

\* s.split(/\s+/)
Split(s) == SplitFrom(s, 0, 0)

\* words.join(sep)
RECURSIVE Join(_, _)
Join(words, sep) ==
    IF words = <<>> THEN <<>>
    ELSE IF Len(words) = 1 THEN words[1]
    ELSE words[1] \o sep \o Join(Tail(words), sep)


---------------------------------------------------------------------------
(* trimText(text, options): src/text-trimmer.js *)

DefaultEllipsis == <<".", ".", ".">>

\* let processedText = text; if (stripHTML) { processedText = ... }
ProcessedText(text, stripHTML) ==
    IF Truthy(stripHTML) THEN StripTags(text) ELSE text

\* if (maxWords) { ... }: the word-count branch
WordMode(processedText, maxWords, ellipsis) ==
    LET words == Split(processedText)
    IN IF LeqValue(Len(words), maxWords) THEN Return(processedText)
       ELSE Return(Join(Slice(words, maxWords.num), <<" ">>) \o ellipsis)

\* maxLength - ellipsis.length as slice takes it: NaN counts as 0
PrefixEnd(maxLength, ellipsis) ==
    IF maxLength.kind = "number" THEN maxLength.num - Len(ellipsis) ELSE 0

\* The mutant of LengthMode that compares with < instead of <=.
LengthMode_Strict(processedText, maxLength, ellipsis, respectWordBoundaries) ==
    IF maxLength.kind = "number" /\ Len(processedText) < maxLength.num
    THEN Return(processedText)
    ELSE LET trimmedText == Slice(processedText, PrefixEnd(maxLength, ellipsis))
             lastSpaceIndex == LastIndexOf(trimmedText, " ")
         IN IF Truthy(respectWordBoundaries) /\ lastSpaceIndex # -1
            THEN Return(Slice(trimmedText, lastSpaceIndex) \o ellipsis)
            ELSE Return(trimmedText \o ellipsis)

\* The length branch, from if (processedText.length <= maxLength) on
LengthMode(processedText, maxLength, ellipsis, respectWordBoundaries) ==
    IF LeqValue(Len(processedText), maxLength) THEN Return(processedText)
    ELSE LET trimmedText == Slice(processedText, PrefixEnd(maxLength, ellipsis))
             lastSpaceIndex == LastIndexOf(trimmedText, " ")
         IN IF Truthy(respectWordBoundaries) /\ lastSpaceIndex # -1
            THEN Return(Slice(trimmedText, lastSpaceIndex) \o ellipsis)
            ELSE Return(trimmedText \o ellipsis)

\* The mutant of TrimValid that strips the tags before the early return.
TrimValid_StripFirst(text, maxLength, maxWords, ellipsis, respectWordBoundaries, stripHTML) ==
    LET processedText == ProcessedText(text, stripHTML)
    IN IF ~Truthy(maxLength) /\ ~Truthy(maxWords) THEN Return(processedText)
       ELSE IF Truthy(maxWords)
            THEN WordMode(processedText, maxWords, ellipsis)
            ELSE LengthMode(processedText, maxLength, ellipsis,
                            respectWordBoundaries)

\* The mutant of TrimValid in which a given maxLength takes the length branch.
TrimValid_LengthFirst(text, maxLength, maxWords, ellipsis, respectWordBoundaries, stripHTML) ==
    IF ~Truthy(maxLength) /\ ~Truthy(maxWords) THEN Return(text)
    ELSE LET processedText == ProcessedText(text, stripHTML)
         IN IF Truthy(maxLength)
            THEN LengthMode(processedText, maxLength, ellipsis,
                            respectWordBoundaries)
            ELSE WordMode(processedText, maxWords, ellipsis)

\* trimText once its arguments have passed validation
TrimValid(text, maxLength, maxWords, ellipsis, respectWordBoundaries, stripHTML) ==
    IF ~Truthy(maxLength) /\ ~Truthy(maxWords) THEN Return(text)
    ELSE LET processedText == ProcessedText(text, stripHTML)
         IN IF Truthy(maxWords)
            THEN WordMode(processedText, maxWords, ellipsis)
            ELSE LengthMode(processedText, maxLength, ellipsis,
                            respectWordBoundaries)

\* opt !== undefined && (typeof opt !== 'number' || opt <= 0)
BadLimit(opt) ==
    opt.kind # "undefined" /\ (TypeOf(opt) # "number" \/ LeqZero(opt))

trimText(text, options) ==
    LET maxLength == options.maxLength
        maxWords == options.maxWords
        ellipsis == Default(options.ellipsis, Str(DefaultEllipsis))
        respectWordBoundaries ==
            Default(options.respectWordBoundaries, Bool(TRUE))
        stripHTML == Default(options.stripHTML, Bool(FALSE))
    IN IF TypeOf(text) # "string"
       THEN Throw("Input must be a string")
       ELSE IF BadLimit(maxLength)
       THEN Throw("Max length must be a positive number")
       ELSE IF BadLimit(maxWords)
       THEN Throw("Max words must be a positive number")
       ELSE TrimValid(text.str, maxLength, maxWords, ellipsis.str,
                      respectWordBoundaries, stripHTML)

---------------------------------------------------------------------------
(* trimText(text, maxLength, ellipsis): the positional form *)

trimTextPositional(text, maxLength, ellipsisArg) ==
    LET ellipsis == Default(ellipsisArg, Str(DefaultEllipsis))
    IN IF TypeOf(text) # "string"
       THEN Throw("Input must be a string")
       ELSE IF TypeOf(maxLength) # "number" \/ LeqZero(maxLength)
       THEN Throw("Max length must be a positive number")
       ELSE IF LeqValue(Len(text.str), maxLength) THEN Return(text.str)
       ELSE Return(Slice(text.str, PrefixEnd(maxLength, ellipsis.str))
                   \o ellipsis.str)

---------------------------------------------------------------------------
(* Calls of trimText on strings, with limits that are absent or positive *)

TrimAlphabet == {"a", " ", "\t", "<", ">"}
Texts == SeqsUpTo(TrimAlphabet, MaxTextLen)
Ellipses == {Undefined} \cup {Str([i \in 1..k |-> "."]) : k \in 0..MaxEllipsisLen}
Lengths == {Undefined} \cup {Num(n) : n \in 1..MaxLimit}
WordCounts == {Undefined} \cup {Num(n) : n \in 1..MaxWordLimit}
Flags == {Bool(TRUE), Bool(FALSE)}

Options(ml, mw, el, rwb, strip) ==
    [maxLength |-> ml, maxWords |-> mw, ellipsis |-> el,
     respectWordBoundaries |-> rwb, stripHTML |-> strip]

Init ==
    /\ pc = "call"
    /\ ret = NoRet
    /\ \/ \E t \in Texts, ml \in Lengths, mw \in WordCounts, el \in Ellipses,
             rwb \in Flags, strip \in Flags :
             args = [fn |-> "trimText", text |-> Str(t),
                     options |-> Options(ml, mw, el, rwb, strip)]
       \/ \E t \in Texts, ml \in Lengths, el \in Ellipses :
             args = [fn |-> "trimTextPositional", text |-> Str(t),
                     options |-> Options(ml, Undefined, el, Undefined, Undefined)]

CallTrimText ==
    /\ pc = "call"
    /\ args.fn = "trimText"
    /\ ret' = trimText(args.text, args.options)
    /\ pc' = "done"
    /\ UNCHANGED args

CallTrimTextPositional ==
    /\ pc = "call"
    /\ args.fn = "trimTextPositional"
    /\ ret' = trimTextPositional(args.text, args.options.maxLength,
                                 args.options.ellipsis)
    /\ pc' = "done"
    /\ UNCHANGED args

Next == CallTrimText \/ CallTrimTextPositional

Spec == Init /\ [][Next]_vars

---------------------------------------------------------------------------
(* What the claims speak of, read off the state *)

Done == pc = "done"
Absent(v) == v.kind = "undefined"
Given(v) == v.kind = "number" /\ v.num > 0

TheText == args.text.str
TheMaxLength == args.options.maxLength
TheMaxWords == args.options.maxWords
TheEllipsis == Default(args.options.ellipsis, Str(DefaultEllipsis)).str
TheRespect == Truthy(Default(args.options.respectWordBoundaries, Bool(TRUE)))
TheStrip == Truthy(Default(args.options.stripHTML, Bool(FALSE)))

\* The working text: the text after the optional stripping.
Working == IF TheStrip THEN StripTags(TheText) ELSE TheText

\* s holds a span "<...>" with at least one character between the brackets.
HasTag(s) ==
    \E i, j \in 1..Len(s) :
        /\ j >= i + 2
        /\ s[i] = "<"
        /\ s[j] = ">"
        /\ \A k \in (i + 1)..(j - 1) : s[k] # ">"

\* The non-empty whitespace-delimited words of s, in order.
RECURSIVE WordsOf(_)
WordsOf(s) ==
    IF s = <<>> THEN <<>>
    ELSE IF IsSpace(Head(s)) THEN WordsOf(Tail(s))
    ELSE LET stops == {i \in 1..Len(s) : IsSpace(s[i])}
             n == IF stops = {} THEN Len(s) ELSE Min(stops) - 1
         IN <<SubSeq(s, 1, n)>> \o WordsOf(SubSeq(s, n + 1, Len(s)))

\* A call in length mode: maxLength given, maxWords absent.
InLengthMode == Done /\ Given(TheMaxLength) /\ Absent(TheMaxWords)

---------------------------------------------------------------------------
(* C1: in length mode the call returns, and the returned string, marker    *)
(* included, is no longer than maxLength, for every ellipsis.  The code    *)
(* breaks this when the ellipsis is longer than maxLength.                 *)
C1_LengthWithinLimit ==
    InLengthMode =>
        /\ ret.kind = "return"
        /\ Len(ret.val) <= TheMaxLength.num

(* C2: with maxLength and maxWords both absent trimText returns the text   *)
(* itself, whatever ellipsis, respectWordBoundaries and stripHTML are.     *)
C2_NoLimitUnchanged ==
    (Done /\ args.fn = "trimText" /\ Absent(TheMaxLength) /\ Absent(TheMaxWords))
        => ret = Return(TheText)

\* C2's case: stripHTML is true, the text holds a tag, no limit is given.
C2_Witness ==
    /\ Done
    /\ args.fn = "trimText"
    /\ Absent(TheMaxLength) /\ Absent(TheMaxWords)
    /\ TheStrip
    /\ HasTag(TheText)
    /\ ret.val = TheText

\* s neither starts nor ends with whitespace.
NoOuterSpace(s) == s = <<>> \/ (~IsSpace(Head(s)) /\ ~IsSpace(s[Len(s)]))

(* C3 as stated: whenever text.length <= maxLength the call returns the    *)
(* text itself, whatever maxWords and stripHTML are.  Stated for texts     *)
(* that neither start nor end with whitespace, where the empty pieces of   *)
(* C4 play no part.                                                        *)
C3_ShortTextUnchanged ==
    (/\ Done
     /\ Given(TheMaxLength)
     /\ Len(TheText) <= TheMaxLength.num
     /\ NoOuterSpace(TheText))
        => ret = Return(TheText)

(* C3 amended: whenever text.length <= maxLength and maxWords is absent,   *)
(* the call returns the working text (the text itself without stripHTML,   *)
(* the text with its tags removed with it), with no ellipsis.              *)
C3_ShortTextReturnsWorking ==
    (InLengthMode /\ Len(TheText) <= TheMaxLength.num) =>
        /\ ret = Return(Working)
        /\ ~TheStrip => ret.val = TheText
        /\ TheStrip => ~HasTag(ret.val)

\* C3's case: the text is exactly maxLength long and its tag is stripped.
C3_Witness ==
    /\ InLengthMode
    /\ Len(TheText) = TheMaxLength.num
    /\ TheStrip
    /\ HasTag(TheText)
    /\ ret.kind = "return"
    /\ ret.val # TheText
    /\ ret.val # <<>>

(* C4: in word-count mode the words are the non-empty whitespace-delimited *)
(* words: with at most maxWords of them the working text is returned       *)
(* unchanged, otherwise the first maxWords words joined by single spaces   *)
(* and the ellipsis.  The code counts the empty pieces that leading and    *)
(* trailing whitespace produce.                                            *)
C4_WordModeCountsWords ==
    (Done /\ args.fn = "trimText" /\ Given(TheMaxWords)) =>
        ret = IF Len(WordsOf(Working)) <= TheMaxWords.num
              THEN Return(Working)
              ELSE Return(Join(SubSeq(WordsOf(Working), 1, TheMaxWords.num),
                               <<" ">>) \o TheEllipsis)

(* C9: in length mode with respectWordBoundaries, a working text longer    *)
(* than maxLength is cut to the prefix of length maxLength -               *)
(* ellipsis.length, cut back to just before its last whitespace character  *)
(* when it has one, and the ellipsis is appended.  Stated for              *)
(* maxLength >= ellipsis.length.  The code backs off to a space only.      *)
C9_BackoffToWhitespace ==
    (/\ InLengthMode
     /\ args.fn = "trimText"
     /\ TheRespect
     /\ Len(Working) > TheMaxLength.num
     /\ TheMaxLength.num >= Len(TheEllipsis)) =>
        LET prefix == SubSeq(Working, 1, TheMaxLength.num - Len(TheEllipsis))
            spaces == {i \in 1..Len(prefix) : IsSpace(prefix[i])}
            kept == IF spaces = {} THEN prefix
                    ELSE SubSeq(prefix, 1, Max(spaces) - 1)
        IN ret = Return(kept \o TheEllipsis)

---------------------------------------------------------------------------
(* Calls of trimText on values of every kind: a text that may not be a     *)
(* string, limits that may be null, NaN, zero, negative or not numbers     *)

MaxValidateTextLen == 2

NonStrings == {Undefined, Null, NaN, Num(1), Bool(TRUE)}
LimitValues ==
    {Undefined, Null, NaN, Bool(TRUE), Str(<<"1">>)}
        \cup {Num(n) : n \in (-MaxLimit)..MaxLimit}
OptionalFlags == {Undefined} \cup Flags

InitValidate ==
    /\ pc = "call"
    /\ ret = NoRet
    /\ \E t \in {Str(x) : x \in SeqsUpTo(TrimAlphabet, MaxValidateTextLen)}
                    \cup NonStrings,
          ml \in LimitValues, mw \in LimitValues,
          el \in {Undefined, Str(<<".">>)},
          rwb \in OptionalFlags, strip \in OptionalFlags :
          args = [fn |-> "trimText", text |-> t,
                  options |-> Options(ml, mw, el, rwb, strip)]

NextValidate == CallTrimText

SpecValidate == InitValidate /\ [][NextValidate]_vars

Present(v) == v.kind # "undefined"
PositiveNumber(v) == v.kind = "number" /\ v.num > 0

(* C5: trimText throws 'Input must be a string' exactly when the text is   *)
(* not a string; otherwise it throws a 'must be a positive number' error   *)
(* exactly when maxLength or maxWords is present and not a positive        *)
(* number; otherwise it returns a string.  The code lets NaN through.      *)
C5_ValidationExact ==
    Done =>
        IF args.text.kind # "string"
        THEN ret = Throw("Input must be a string")
        ELSE IF \/ Present(TheMaxLength) /\ ~PositiveNumber(TheMaxLength)
                \/ Present(TheMaxWords) /\ ~PositiveNumber(TheMaxWords)
        THEN /\ ret.kind = "throw"
             /\ ret.err \in {"Max length must be a positive number",
                             "Max words must be a positive number"}
        ELSE ret.kind = "return"

---------------------------------------------------------------------------
(* Two calls of trimText on the same text with the same maxWords, ellipsis *)
(* and stripHTML, each with its own maxLength and respectWordBoundaries    *)

MaxPairTextLen == 3

InitPair ==
    /\ pc = "call"
    /\ ret = NoRet
    /\ \E t \in SeqsUpTo(TrimAlphabet, MaxPairTextLen),
          mw \in WordCounts \ {Undefined}, el \in {Undefined, Str(<<".">>)},
          strip \in Flags,
          ml1 \in Lengths, ml2 \in Lengths, rwb1 \in Flags, rwb2 \in Flags :
          args = [fn |-> "trimText", text |-> Str(t),
                  options |-> Options(ml1, mw, el, rwb1, strip),
                  options2 |-> Options(ml2, mw, el, rwb2, strip)]

CallTrimTextTwice ==
    /\ pc = "call"
    /\ ret' = [first |-> trimText(args.text, args.options),
               second |-> trimText(args.text, args.options2)]
    /\ pc' = "done"
    /\ UNCHANGED args

NextPair == CallTrimTextTwice

SpecPair == InitPair /\ [][NextPair]_vars

(* C10: two calls with the same text, maxWords (given), ellipsis and       *)
(* stripHTML return the same string, whatever maxLength and                *)
(* respectWordBoundaries each of them has.                                 *)
C10_WordModeIgnoresLength ==
    (/\ Done
     /\ Given(args.options.maxWords)
     /\ args.options2.maxWords = args.options.maxWords
     /\ args.options2.ellipsis = args.options.ellipsis
     /\ args.options2.stripHTML = args.options.stripHTML)
        => /\ ret.first.kind = "return"
           /\ ret.second = ret.first

\* C10's case: the two calls differ in maxLength and respectWordBoundaries,
\* the text is cut to maxWords words, and the common result is longer than
\* the maxLength of the second call.
C10_Witness ==
    /\ Done
    /\ Given(args.options.maxWords)
    /\ Absent(args.options.maxLength)
    /\ Given(args.options2.maxLength)
    /\ args.options2.respectWordBoundaries # args.options.respectWordBoundaries
    /\ ret.second = ret.first
    /\ ret.first.val # args.text.str
    /\ Len(ret.second.val) > args.options2.maxLength.num

---------------------------------------------------------------------------
(* String.prototype.replace with a pattern and a replacement string, as    *)
(* escapeRegExp and highlightText use it                                   *)

\* The grave accent.  A TLA+ string cannot hold it on its own, so this
\* character is written by name.
GraveAccent == "grave"

\* GetSubstitution with no capture groups: $$ is a dollar, $& the match,
\* $ and a grave accent the text before the match, $ and an apostrophe the
\* text after it; any other $ stays.
RECURSIVE Expand(_, _, _, _)
Expand(repl, matched, before, after) ==
    IF repl = <<>> THEN <<>>
    ELSE IF Head(repl) = "$" /\ Len(repl) >= 2 /\ repl[2] \in {"$", "&", GraveAccent, "'"}
    THEN (CASE repl[2] = "$" -> <<"$">>
            [] repl[2] = "&" -> matched
            [] repl[2] = GraveAccent -> before
            [] repl[2] = "'" -> after)
         \o Expand(SubSeq(repl, 3, Len(repl)), matched, before, after)
    ELSE <<Head(repl)>> \o Expand(Tail(repl), matched, before, after)

Lit(c) == [t |-> "lit", c |-> c]
AnyChar == [t |-> "any", c |-> ""]
WordBoundary == [t |-> "wordb", c |-> ""]
EndOfInput == [t |-> "eol", c |-> ""]
StartOfInput == [t |-> "bol", c |-> ""]

\* new RegExp(pattern): the atoms of a pattern made of characters, escaped
\* characters, \b, the wildcard and the two anchors.
RECURSIVE ParsePattern(_)
ParsePattern(p) ==
    IF p = <<>> THEN <<>>
    ELSE IF Head(p) = "\\" /\ Len(p) >= 2
    THEN <<IF p[2] = "b" THEN WordBoundary ELSE Lit(p[2])>>
         \o ParsePattern(SubSeq(p, 3, Len(p)))
    ELSE <<CASE Head(p) = "." -> AnyChar
             [] Head(p) = "$" -> EndOfInput
             [] Head(p) = "^" -> StartOfInput
             [] OTHER -> Lit(Head(p))>>
         \o ParsePattern(Tail(p))

LowerCase == <<"a", "b", "c", "d", "e", "f", "g", "h", "i", "j", "k", "l", "m",
               "n", "o", "p", "q", "r", "s", "t", "u", "v", "w", "x", "y", "z">>
UpperCase == <<"A", "B", "C", "D", "E", "F", "G", "H", "I", "J", "K", "L", "M",
               "N", "O", "P", "Q", "R", "S", "T", "U", "V", "W", "X", "Y", "Z">>
Digits == {"0", "1", "2", "3", "4", "5", "6", "7", "8", "9"}

\* the characters \w matches
IsWordChar(c) ==
    \/ \E i \in 1..Len(LowerCase) : c = LowerCase[i] \/ c = UpperCase[i]
    \/ c \in Digits
    \/ c = "_"

\* Canonicalize under the i flag: the upper-case form of the character
Canonicalize(c) ==
    IF \E i \in 1..Len(LowerCase) : c = LowerCase[i]
    THEN UpperCase[CHOOSE i \in 1..Len(LowerCase) : c = LowerCase[i]]
    ELSE c

CharMatches(c, d, ignoreCase) ==
    IF ignoreCase THEN Canonicalize(c) = Canonicalize(d) ELSE c = d

\* \b at the 0-based position i of s
AtWordBoundary(s, i) ==
    (i > 0 /\ IsWordChar(s[i])) # (i < Len(s) /\ IsWordChar(s[i + 1]))

\* The 0-based position at which atoms k.. of the pattern, tried at the
\* 0-based position i of s, stop matching; -1 when they do not match.
RECURSIVE MatchAt(_, _, _, _, _)
MatchAt(atoms, k, s, i, ignoreCase) ==
    IF k > Len(atoms) THEN i
    ELSE CASE atoms[k].t = "lit" ->
                IF i < Len(s) /\ CharMatches(s[i + 1], atoms[k].c, ignoreCase)
                THEN MatchAt(atoms, k + 1, s, i + 1, ignoreCase) ELSE -1
           [] atoms[k].t = "any" ->
                IF i < Len(s) /\ s[i + 1] \notin {"\n", "\r"}
                THEN MatchAt(atoms, k + 1, s, i + 1, ignoreCase) ELSE -1
           [] atoms[k].t = "wordb" ->
                IF AtWordBoundary(s, i)
                THEN MatchAt(atoms, k + 1, s, i, ignoreCase) ELSE -1
           [] atoms[k].t = "eol" ->
                IF i = Len(s)
                THEN MatchAt(atoms, k + 1, s, i, ignoreCase) ELSE -1
           [] atoms[k].t = "bol" ->
                IF i = 0
                THEN MatchAt(atoms, k + 1, s, i, ignoreCase) ELSE -1

\* The global replace from the 0-based position i on: every match, left to
\* right, gives way to the expanded replacement; an empty match moves on by
\* one character.
RECURSIVE ReplaceFrom(_, _, _, _, _)
ReplaceFrom(s, atoms, ignoreCase, repl, i) ==
    IF i > Len(s) THEN <<>>
    ELSE LET e == MatchAt(atoms, 1, s, i, ignoreCase)
             next == IF i < Len(s) THEN <<s[i + 1]>> ELSE <<>>
         IN IF e = -1
            THEN next \o ReplaceFrom(s, atoms, ignoreCase, repl, i + 1)
            ELSE Expand(repl, SubSeq(s, i + 1, e), SubSeq(s, 1, i),
                        SubSeq(s, e + 1, Len(s)))
                 \o (IF e > i
                     THEN ReplaceFrom(s, atoms, ignoreCase, repl, e)
                     ELSE next \o ReplaceFrom(s, atoms, ignoreCase, repl, i + 1))

\* s.replace(new RegExp(pattern, ignoreCase ? 'gi' : 'g'), repl)
ReplaceAll(s, pattern, ignoreCase, repl) ==
    ReplaceFrom(s, ParsePattern(pattern), ignoreCase, repl, 0)

---------------------------------------------------------------------------
(* escapeRegExp(string) *)

\* The mutant of EscapeClass that leaves the backslash out.
EscapeClass_NoBackslash ==
    {".", "*", "+", "?", "^", "$", "{", "}", "(", ")", "|", "[", "]"}

\* the class [.*+?^${}()|[\]\\]
EscapeClass ==
    {".", "*", "+", "?", "^", "$", "{", "}", "(", ")", "|", "[", "]", "\\"}

\* string.replace(/[...]/g, '\\$&'): each character of the class gives way
\* to the expansion of \$& with that character as the match.
RECURSIVE EscapeFrom(_, _)
EscapeFrom(s, i) ==
    IF i > Len(s) THEN <<>>
    ELSE (IF s[i] \in EscapeClass
          THEN Expand(<<"\\", "$", "&">>, <<s[i]>>, SubSeq(s, 1, i - 1),
                      SubSeq(s, i + 1, Len(s)))
          ELSE <<s[i]>>)
         \o EscapeFrom(s, i + 1)

escapeRegExp(string) == EscapeFrom(string, 1)

MaxEscapeLen == 2

EscapeAlphabet ==
    {".", "*", "+", "?", "^", "$", "{", "}", "(", ")", "|", "[", "]", "\\",
     "a", "-", "/"}

InitEscape ==
    /\ pc = "call"
    /\ ret = NoRet
    /\ \E t \in SeqsUpTo(EscapeAlphabet, MaxEscapeLen) :
          args = [fn |-> "escapeRegExp", text |-> Str(t)]

CallEscapeRegExp ==
    /\ pc = "call"
    /\ args.fn = "escapeRegExp"
    /\ ret' = Return(escapeRegExp(args.text.str))
    /\ pc' = "done"
    /\ UNCHANGED args

NextEscape == CallEscapeRegExp

SpecEscape == InitEscape /\ [][NextEscape]_vars

\* The characters the escape helper is to escape.
SearchSpecials ==
    {".", "*", "+", "?", "^", "$", "{", "}", "(", ")", "|", "[", "]", "\\"}

\* The number of special characters among the first i characters of s.
SpecialsBefore(s, i) == Cardinality({k \in 1..i : s[k] \in SearchSpecials})

\* r with every escaping backslash removed: a backslash is dropped and the
\* character after it is kept as it is.
RECURSIVE Unescape(_)
Unescape(r) ==
    IF r = <<>> THEN <<>>
    ELSE IF Head(r) = "\\" /\ Len(r) >= 2
    THEN <<r[2]>> \o Unescape(SubSeq(r, 3, Len(r)))
    ELSE <<Head(r)>> \o Unescape(Tail(r))

(* C8: escapeRegExp returns on every string; in the result every           *)
(* character of the input stands in its order, each special character      *)
(* right after one added backslash and nothing else added, so that         *)
(* removing the escaping backslashes gives back the input.                 *)
C8_EscapeExact ==
    (Done /\ args.fn = "escapeRegExp") =>
        LET s == TheText
            r == ret.val
        IN /\ ret.kind = "return"
           /\ Len(r) = Len(s) + SpecialsBefore(s, Len(s))
           /\ \A i \in 1..Len(s) :
                 /\ r[i + SpecialsBefore(s, i)] = s[i]
                 /\ s[i] \in SearchSpecials
                        => r[i + SpecialsBefore(s, i) - 1] = "\\"
           /\ Unescape(r) = s

\* C8's case: a backslash next to another special character.
C8_Witness ==
    /\ Done
    /\ args.fn = "escapeRegExp"
    /\ TheText = <<"\\", ".">>
    /\ ret.val = <<"\\", "\\", "\\", ".">>

---------------------------------------------------------------------------
(* highlightText(text, terms, options): src/unnamed/part_000 *)

DefaultHighlightStart == <<"<", "m", "a", "r", "k", ">">>
DefaultHighlightEnd == <<"<", "/", "m", "a", "r", "k", ">">>

\* The body of the forEach callback: the result after one term.
HighlightTerm(result, term, highlightStart, highlightEnd, caseSensitive, wholeWords) ==
    IF TypeOf(term) # "string" \/ Len(term.str) = 0 THEN result
    ELSE LET pattern == IF Truthy(wholeWords)
                        THEN <<"\\", "b">> \o escapeRegExp(term.str)
                                 \o <<"\\", "b">>
                        ELSE escapeRegExp(term.str)
         IN ReplaceAll(result, pattern, ~Truthy(caseSensitive),
                       highlightStart \o <<"$", "&">> \o highlightEnd)

\* The mutant of ForEachTerm that goes through the terms last to first.
RECURSIVE ForEachTerm_Reversed(_, _, _, _, _, _, _)
ForEachTerm_Reversed(result, termList, i, highlightStart, highlightEnd, caseSensitive, wholeWords) ==
    IF i > Len(termList) THEN result
    ELSE ForEachTerm_Reversed(
             HighlightTerm(result, termList[Len(termList) + 1 - i],
                           highlightStart, highlightEnd, caseSensitive,
                           wholeWords),
             termList, i + 1, highlightStart, highlightEnd, caseSensitive,
             wholeWords)

\* termList.forEach from the i-th term on, result being the accumulated text
RECURSIVE ForEachTerm(_, _, _, _, _, _, _)
ForEachTerm(result, termList, i, highlightStart, highlightEnd, caseSensitive, wholeWords) ==
    IF i > Len(termList) THEN result
    ELSE ForEachTerm(
             HighlightTerm(result, termList[i], highlightStart, highlightEnd,
                           caseSensitive, wholeWords),
             termList, i + 1, highlightStart, highlightEnd, caseSensitive,
             wholeWords)

HighlightOptions(hs, he, cs, ww) ==
    [highlightStart |-> hs, highlightEnd |-> he, caseSensitive |-> cs,
     wholeWords |-> ww]

highlightText(text, terms, options) ==
    LET highlightStart ==
            Default(options.highlightStart, Str(DefaultHighlightStart))
        highlightEnd == Default(options.highlightEnd, Str(DefaultHighlightEnd))
        caseSensitive == Default(options.caseSensitive, Bool(FALSE))
        wholeWords == Default(options.wholeWords, Bool(FALSE))
        termList == IF terms.kind = "array" THEN terms.items ELSE <<terms>>
    IN IF TypeOf(text) # "string"
       THEN Throw("Input text must be a string")
       ELSE IF ~Truthy(terms) \/ (terms.kind = "array" /\ Len(terms.items) = 0)
       THEN Return(text.str)
       ELSE Return(ForEachTerm(text.str, termList, 1, highlightStart.str,
                               highlightEnd.str, caseSensitive, wholeWords))

CallHighlightText ==
    /\ pc = "call"
    /\ args.fn = "highlightText"
    /\ ret' = highlightText(args.text, args.terms, args.options)
    /\ pc' = "done"
    /\ UNCHANGED args

---------------------------------------------------------------------------
(* Calls of highlightText with one term and markers of any characters *)

MaxHighlightTextLen == 3
MaxTermLen == 2

HighlightAlphabet == {"a", "A", ".", " "}
Markers ==
    {Undefined, Str(<<>>), Str(<<"[">>), Str(<<"$">>), Str(<<"&">>),
     Str(<<"$", "$">>), Str(<<"$", "'">>)}

InitHighlight ==
    /\ pc = "call"
    /\ ret = NoRet
    /\ \E t \in SeqsUpTo(HighlightAlphabet, MaxHighlightTextLen),
          term \in SeqsUpTo(HighlightAlphabet, MaxTermLen) \ {<<>>},
          hs \in Markers, he \in Markers, cs \in Flags, ww \in Flags :
          args = [fn |-> "highlightText", text |-> Str(t), terms |-> Str(term),
                  options |-> HighlightOptions(hs, he, cs, ww)]

NextHighlight == CallHighlightText

SpecHighlight == InitHighlight /\ [][NextHighlight]_vars

TheStart == Default(args.options.highlightStart, Str(DefaultHighlightStart)).str
TheEnd == Default(args.options.highlightEnd, Str(DefaultHighlightEnd)).str
TheCaseSensitive == Truthy(Default(args.options.caseSensitive, Bool(FALSE)))
TheWholeWords == Truthy(Default(args.options.wholeWords, Bool(FALSE)))

\* term occurs in s at the 1-based index i, letter case aside unless exact.
OccursAt(s, term, i, exact) ==
    /\ i + Len(term) - 1 <= Len(s)
    /\ \A k \in 1..Len(term) :
          IF exact THEN s[i + k - 1] = term[k]
          ELSE Canonicalize(s[i + k - 1]) = Canonicalize(term[k])

\* s from index i on with every occurrence of term, taken left to right and
\* not overlapping, wrapped in start and end as they are written.
RECURSIVE WrapFrom(_, _, _, _, _, _)
WrapFrom(s, term, i, exact, start, end) ==
    IF i > Len(s) THEN <<>>
    ELSE IF OccursAt(s, term, i, exact)
    THEN start \o SubSeq(s, i, i + Len(term) - 1) \o end
         \o WrapFrom(s, term, i + Len(term), exact, start, end)
    ELSE <<s[i]>> \o WrapFrom(s, term, i + 1, exact, start, end)

(* C6: for one non-empty term and any markers, highlightText returns the   *)
(* text with every occurrence of the term, left to right and not           *)
(* overlapping, replaced by highlightStart, the matched text as it stands  *)
(* in the input and highlightEnd, everything else unchanged.  Stated       *)
(* without wholeWords.  The code reads a $ in a marker as the start of a   *)
(* replacement pattern.                                                    *)
C6_WrapsEveryOccurrence ==
    (/\ Done
     /\ args.fn = "highlightText"
     /\ args.terms.kind = "string"
     /\ args.terms.str # <<>>
     /\ ~TheWholeWords)
        => ret = Return(WrapFrom(TheText, args.terms.str, 1, TheCaseSensitive,
                                 TheStart, TheEnd))

---------------------------------------------------------------------------
(* Calls of highlightText with no terms, one term or a list of terms, some *)
(* of them empty or not strings                                            *)

MaxFoldTextLen == 2
MaxTerms == 2

FoldAlphabet == {"a", "m", "."}
FoldTermValues ==
    {Str(<<>>), Str(<<"a">>), Str(<<"m">>), Str(<<".">>), Num(1), Null}
FoldMarkers == {Undefined, Str(<<"$">>)}

InitFold ==
    /\ pc = "call"
    /\ ret = NoRet
    /\ \E t \in SeqsUpTo(FoldAlphabet, MaxFoldTextLen),
          terms \in {Undefined, Null, Str(<<>>), Str(<<"a">>)}
                        \cup {Arr(xs) : xs \in SeqsUpTo(FoldTermValues, MaxTerms)},
          hs \in FoldMarkers, he \in FoldMarkers, cs \in Flags, ww \in Flags :
          args = [fn |-> "highlightText", text |-> Str(t), terms |-> terms,
                  options |-> HighlightOptions(hs, he, cs, ww)]

NextFold == CallHighlightText

SpecFold == InitFold /\ [][NextFold]_vars

\* A term the loop does not skip.
IsSearchTerm(term) == term.kind = "string" /\ term.str # <<>>

\* The string highlightText returns for a string text.
Highlighted(text, terms) == highlightText(Str(text), terms, args.options).val

(* C7: highlightText folds over the terms in order on the accumulated      *)
(* result: highlight(text, [t1..tn]) is highlight(highlight(text,          *)
(* [t1..tn-1]), [tn]); terms that are empty or not strings are skipped     *)
(* without effect; absent, null or empty terms return the text unchanged;  *)
(* one string term counts as the list of that term.                        *)
C7_FoldsOverTerms ==
    (Done /\ args.fn = "highlightText" /\ args.text.kind = "string") =>
        LET terms == args.terms
        IN /\ ret.kind = "return"
           /\ terms.kind = "array" /\ Len(terms.items) >= 1 =>
                 ret.val =
                     Highlighted(
                         Highlighted(TheText,
                             Arr(SubSeq(terms.items, 1, Len(terms.items) - 1))),
                         Arr(<<terms.items[Len(terms.items)]>>))
           /\ terms.kind = "array" =>
                 ret.val = Highlighted(TheText,
                                       Arr(SelectSeq(terms.items, IsSearchTerm)))
           /\ (\/ terms.kind \in {"undefined", "null"}
               \/ terms.kind = "string" /\ terms.str = <<>>
               \/ terms.kind = "array" /\ terms.items = <<>>) =>
                 ret.val = TheText
           /\ terms.kind = "string" =>
                 ret.val = Highlighted(TheText, Arr(<<terms>>))

\* C7's case: two terms, the second of which does not occur in the text
\* and yet changes the result of the first: it matched inside the markers.
C7_Witness ==
    /\ Done
    /\ args.fn = "highlightText"
    /\ args.terms.kind = "array"
    /\ Len(args.terms.items) = 2
    /\ IsSearchTerm(args.terms.items[1])
    /\ IsSearchTerm(args.terms.items[2])
    /\ Highlighted(TheText, Arr(<<args.terms.items[2]>>)) = TheText
    /\ ret.val # Highlighted(TheText, Arr(<<args.terms.items[1]>>))

=============================================================================
